---- MODULE Spec2Model ----
(***************************************************************************)
(* A model of restate-for-dummies: the typed wrapper layer over the        *)
(* Restate SDK.  The layer is a set of thin adapters:                      *)
(*   - client-proxy.ts   : codec injection into every call of a raw client *)
(*   - typed-*.ts        : handler registration adapters / built contexts  *)
(*   - utils.ts          : run / get / set delegation                      *)
(*   - common-types.ts   : the static handler-type transformations         *)
(* The Restate runtime itself (state store, durable steps, raw clients) is *)
(* the environment; it is modelled only as far as the adapters talk to it. *)
(***************************************************************************)
EXTENDS Integers, Sequences, FiniteSets, TLC

(***************************************************************************)
(* Bounds of the model.                                                    *)
(***************************************************************************)
MaxArgs == 2          \* domain arguments of one client call: 0..MaxArgs
MaxDomainVal == 2     \* domain argument values: 1..MaxDomainVal
MaxArity == 3         \* domain parameters of a declared handler: 0..MaxArity

(***************************************************************************)
(* Codecs (Serde instances).  A codec is identified by name; NoCodec is an *)
(* unset (undefined) codec field.                                          *)
(***************************************************************************)
NoCodec == "undefined"
Codecs == {"superjsonserde", "serdeA", "serdeB"}
MaybeCodec == Codecs \cup {NoCodec}

(***************************************************************************)
(* Argument values of a client call.  Every value carries its class, so    *)
(* that `instanceof` can be modelled: a plain domain value, the empty      *)
(* object literal {}, or an options object of one of the four SDK classes. *)
(***************************************************************************)
OptsClasses == {"Opts", "SendOpts", "IngressOpts", "IngressSendOpts"}

DomainArg(v) ==
  [cls |-> "value", v |-> v, input |-> NoCodec, output |-> NoCodec, delay |-> 0, idempotencyKey |-> 0]

EmptyObject ==
  [cls |-> "object", v |-> 0, input |-> NoCodec, output |-> NoCodec, delay |-> 0, idempotencyKey |-> 0]

\* The fields of an options object (what getOpts() / .opts returns).
OptFields(input, output, delay, idem) ==
  [input |-> input, output |-> output, delay |-> delay, idempotencyKey |-> idem]

\* rpc.opts(fields) of restate-sdk ("sdk") or restate-sdk-clients ("ingress")
rpcOpts(rpcModule, fields) ==
  [cls |-> IF rpcModule = "sdk" THEN "Opts" ELSE "IngressOpts",
   v |-> 0, input |-> fields.input, output |-> fields.output,
   delay |-> fields.delay, idempotencyKey |-> fields.idempotencyKey]

\* a send-options value built like a call-options value, output codec included
rpcSendOpts_WithOutput(rpcModule, fields) ==
  [cls |-> IF rpcModule = "sdk" THEN "SendOpts" ELSE "IngressSendOpts",
   v |-> 0, input |-> fields.input, output |-> fields.input,
   delay |-> fields.delay, idempotencyKey |-> fields.idempotencyKey]

\* rpc.sendOpts(fields)
rpcSendOpts(rpcModule, fields) ==
  [cls |-> IF rpcModule = "sdk" THEN "SendOpts" ELSE "IngressSendOpts",
   v |-> 0, input |-> fields.input, output |-> fields.output,
   delay |-> fields.delay, idempotencyKey |-> fields.idempotencyKey]

\* a guard that recognises no options value
typeGuard_NeverMatches(guardCls, obj) == FALSE

\* isOpts / isSendOpts / isIngressOpts / isIngressSendOpts: obj instanceof C
typeGuard(guardCls, obj) == obj.cls = guardCls

\* a getter that hands back the codec fields only
getExistingOpts_CodecsOnly(opts) ==
  OptFields(opts.input, opts.output, 0, 0)

\* opts.getOpts() / opts.opts
getExistingOpts(opts) ==
  OptFields(opts.input, opts.output, opts.delay, opts.idempotencyKey)

\* JavaScript `a || b` on codec fields: an unset field is falsy
OrElse(a, b) == IF a = NoCodec THEN b ELSE a

\* args.slice(0, -1)
SliceButLast(args) == SubSeq(args, 1, Len(args) - 1)

(***************************************************************************)
(* createArgsHandler(rpcModule, optsType, typeGuard, getExistingOpts)      *)
(* applied to (args, serde).                                               *)
(***************************************************************************)
\* rpcModule.opts({input: serde, output: serde}) / rpcModule.sendOpts({input: serde})
freshOpts_NoCodec(rpcModule, optsType, codec) ==
  IF optsType = "call"
  THEN rpcOpts(rpcModule, OptFields(NoCodec, NoCodec, 0, 0))
  ELSE rpcSendOpts(rpcModule, OptFields(NoCodec, NoCodec, 0, 0))

freshOpts(rpcModule, optsType, codec) ==
  IF optsType = "call"
  THEN rpcOpts(rpcModule, OptFields(codec, codec, 0, 0))
  ELSE rpcSendOpts(rpcModule, OptFields(codec, NoCodec, 0, 0))

\* the merge of the configured codec into the caller's options
mergedOpts_OverrideExplicit(rpcModule, optsType, existingOpts, codec) ==
  IF optsType = "call"
  THEN rpcOpts(rpcModule, [existingOpts EXCEPT !.input = codec, !.output = codec])
  ELSE rpcSendOpts(rpcModule, [existingOpts EXCEPT !.input = codec])

mergedOpts(rpcModule, optsType, existingOpts, codec) ==
  IF optsType = "call"
  THEN rpcOpts(rpcModule,
         [existingOpts EXCEPT !.input = OrElse(existingOpts.input, codec),
                              !.output = OrElse(existingOpts.output, codec)])
  ELSE rpcSendOpts(rpcModule,
         [existingOpts EXCEPT !.input = OrElse(existingOpts.input, codec)])

\* "Handle empty args by adding empty object": return [{}, opts]
emptyArgsResult_OptsDropped(rpcModule, optsType, codec) ==
  << EmptyObject >>

emptyArgsResult(rpcModule, optsType, codec) ==
  << EmptyObject, freshOpts(rpcModule, optsType, codec) >>

createArgsHandler(rpcModule, optsType, guardCls, args, codec) ==
  IF Len(args) = 0
  THEN emptyArgsResult(rpcModule, optsType, codec)
  ELSE LET lastArg == args[Len(args)] IN
       IF typeGuard(guardCls, lastArg)
       THEN Append(SliceButLast(args),
                   mergedOpts(rpcModule, optsType, getExistingOpts(lastArg), codec))
       ELSE \* "No opts provided - append new opts"
            Append(args, freshOpts(rpcModule, optsType, codec))

handleCallArgs(args, codec) == createArgsHandler("sdk", "call", "Opts", args, codec)
handleSendArgs(args, codec) == createArgsHandler("sdk", "send", "SendOpts", args, codec)
handleIngressCallArgs(args, codec) == createArgsHandler("ingress", "call", "IngressOpts", args, codec)
handleIngressSendArgs(args, codec) == createArgsHandler("ingress", "send", "IngressSendOpts", args, codec)

(***************************************************************************)
(* The wrappers: which args handler each wrapped client kind uses.         *)
(*   wrapClient, wrapSendClient, wrapIngressClient,                        *)
(*   wrapIngressWorkflowClient, wrapIngressSendClient                      *)
(***************************************************************************)
WrapKinds == {"wrapClient", "wrapSendClient", "wrapIngressClient",
              "wrapIngressWorkflowClient", "wrapIngressSendClient"}
CallWrapKinds == {"wrapClient", "wrapIngressClient", "wrapIngressWorkflowClient"}
SendWrapKinds == WrapKinds \ CallWrapKinds

\* The options class the raw client of a wrapper understands.
OptsClassOf(w) ==
  CASE w = "wrapClient" -> "Opts"
    [] w = "wrapSendClient" -> "SendOpts"
    [] w = "wrapIngressSendClient" -> "IngressSendOpts"
    [] OTHER -> "IngressOpts"

\* createClientWrapper(...)'s wrapped function: processedArgs = argsHandler(args, serde)
createClientWrapper(w, args, codec) ==
  CASE w = "wrapClient" -> handleCallArgs(args, codec)
    [] w = "wrapSendClient" -> handleSendArgs(args, codec)
    [] w = "wrapIngressSendClient" -> handleIngressSendArgs(args, codec)
    [] OTHER -> handleIngressCallArgs(args, codec)

(***************************************************************************)
(* The static type transformations.  A function type is a record of its    *)
(* context parameter type, its domain parameter types and its result type; *)
(* Never is the type `never`.  A declared handler has the built context of *)
(* its primitive as first parameter.                                       *)
(***************************************************************************)
Never == [ctx |-> "never", args |-> << >>, ret |-> "never"]
FnType(ctx, args, ret) == [ctx |-> ctx, args |-> args, ret |-> ret]

\* the four per-primitive transformations of common-types.ts: conditional
\* types that match the parameter tuple against [], [Arg] and [Arg1, Arg2]
TransformByArity(rawCtx, h) ==
  IF Len(h.args) = 0 THEN FnType(rawCtx, << >>, h.ret)
  ELSE IF Len(h.args) = 1 THEN FnType(rawCtx, << h.args[1] >>, h.ret)
  ELSE IF Len(h.args) = 2 THEN FnType(rawCtx, << h.args[1], h.args[2] >>, h.ret)
  ELSE Never

TransformObjectHandler(h) == TransformByArity("ObjectContext", h)
TransformServiceHandler(h) == TransformByArity("Context", h)
TransformWorkflowHandler(h) == TransformByArity("WorkflowContext", h)
TransformWorkflowSharedHandler(h) == TransformByArity("WorkflowSharedContext", h)

\* type-utils.ts: (ctx: TFromContext, ...args: infer Args) => infer R
\*                  ? (ctx: TToContext, ...args: Args) => R : never
TransformHandler(toContext, h) == FnType(toContext, h.args, h.ret)

\* type-utils.ts: ExtractHandlerSignature; a conditional type over never is never
ExtractHandlerSignature(t) ==
  IF t = Never THEN Never ELSE FnType("none", t.args, t.ret)

Transforms == {"TransformObjectHandler", "TransformServiceHandler",
               "TransformWorkflowHandler", "TransformWorkflowSharedHandler",
               "TransformHandler"}

RawContextOf(transform) ==
  CASE transform = "TransformObjectHandler" -> "ObjectContext"
    [] transform = "TransformServiceHandler" -> "Context"
    [] transform = "TransformWorkflowHandler" -> "WorkflowContext"
    [] transform = "TransformWorkflowSharedHandler" -> "WorkflowSharedContext"
    [] OTHER -> "Context"

ApplyTransform(transform, h) ==
  CASE transform = "TransformObjectHandler" -> TransformObjectHandler(h)
    [] transform = "TransformServiceHandler" -> TransformServiceHandler(h)
    [] transform = "TransformWorkflowHandler" -> TransformWorkflowHandler(h)
    [] transform = "TransformWorkflowSharedHandler" -> TransformWorkflowSharedHandler(h)
    [] OTHER -> TransformHandler(RawContextOf(transform), h)

\* the mapped types { [K in keyof THandlers]: Transform...<THandlers[K]> }
TransformHandlers(transform, H) ==
  [k \in DOMAIN H |-> ApplyTransform(transform, H[k])]

\* HandlersToClient / ClientType<Definition>
HandlersToClient(R) ==
  [k \in DOMAIN R |-> ExtractHandlerSignature(R[k])]

(***************************************************************************)
(* The registration adapters: the handlers of the definition produced from *)
(* a handler map (given by its keys) and the configured codec.             *)
(***************************************************************************)
Registration_OutputUnset(name, kind, codec) ==
  [name |-> name, kind |-> kind, input |-> codec, output |-> NoCodec]

Registration(name, kind, codec) ==
  [name |-> name, kind |-> kind, input |-> codec, output |-> codec]

createRestateService_Placeholder(handlerKeys, codec) ==
  { Registration(k, "handler", codec) :
      k \in IF handlerKeys = {} THEN {"default"} ELSE handlerKeys }

\* restate.handlers.handler for every entry
createRestateService(handlerKeys, codec) ==
  { Registration(k, "handler", codec) : k \in handlerKeys }

\* an adapter that registers with restate.handlers.object.shared
createRestateObject_Shared(handlerKeys, codec) ==
  { Registration(k, "shared", codec) : k \in handlerKeys }

\* restate.handlers.object.exclusive for every entry
createRestateObject(handlerKeys, codec) ==
  { Registration(k, "exclusive", codec) : k \in handlerKeys }

createEventObject_DropsHandler(handlerKeys, codec) ==
  createRestateObject(handlerKeys \ {"a"}, codec)

\* createEventObject: one wrapped handler per entry, handed to typedObject
createEventObject(handlerKeys, codec) ==
  createRestateObject(handlerKeys, codec)

\* const { run: runHandler, ...sharedHandlers } = inputHandlers
createRestateWorkflow_RunAlsoShared(handlerKeys, codec) ==
  { Registration("run", "workflow", codec) }
    \cup { Registration(k, "shared", codec) : k \in handlerKeys }

createRestateWorkflow(handlerKeys, codec) ==
  { Registration("run", "workflow", codec) }
    \cup { Registration(k, "shared", codec) : k \in handlerKeys \ {"run"} }

Primitives == {"service", "object", "workflow", "event"}

\* Factory.object takes a direct handler map or a wrapper { state?, handlers }
ObjectForms == {"direct", "wrapper"}

\* the own property names of the value handed to Factory.object
definitionProps(form, handlerKeys, withState) ==
  IF form = "wrapper"
  THEN {"handlers"} \cup (IF withState THEN {"state"} ELSE {})
  ELSE handlerKeys

\* Object.entries(definition.handlers): the handler map of a wrapper; of a
\* direct map the property is a handler function, which has no entries
handlersPropertyEntries(form, handlerKeys) ==
  IF form = "wrapper" THEN handlerKeys ELSE {}

\* 'handlers' in definition ? definition.handlers : definition
factoryObject(form, handlerKeys, withState, codec) ==
  createRestateObject(
    IF "handlers" \in definitionProps(form, handlerKeys, withState)
    THEN handlersPropertyEntries(form, handlerKeys)
    ELSE handlerKeys,
    codec)

BuildDefinition(primitive, handlerKeys, codec) ==
  CASE primitive = "service" -> createRestateService(handlerKeys, codec)
    [] primitive = "object" -> createRestateObject(handlerKeys, codec)
    [] primitive = "event" -> createEventObject(handlerKeys, codec)
    [] OTHER -> createRestateWorkflow(handlerKeys, codec)

(***************************************************************************)
(* The runtime's key-value state of one object or workflow instance.  A    *)
(* cell holds the value together with the codec that serialised it; bytes  *)
(* read back by a codec that did not write them do not yield the value.    *)
(***************************************************************************)
Null == 0           \* ctx.get of a key that holds nothing
Garbled == 0 - 1    \* result of deserialising another codec's bytes
NoWrite == 0 - 2    \* no plain setState of the key is in effect

StateKeys == {"count", "name"}
StoreKeys == StateKeys \cup {"events"}

Cell(codec, value) == [codec |-> codec, value |-> value]
NoCell == Cell("none", Null)
EmptyStore == [k \in StoreKeys |-> NoCell]

\* superjsonserde of serde.ts and the SDK default (serde undefined) are both
\* JSON.stringify / JSON.parse over UTF-8
Compatible(writer, reader) ==
  writer = reader \/ {writer, reader} \subseteq {"superjsonserde", NoCodec}

ctxGet(st, key, codec) ==
  IF st[key].codec = "none" THEN Null
  ELSE IF Compatible(st[key].codec, codec) THEN st[key].value
  ELSE Garbled

ctxSet_WriteLost(st, key, value, codec) == st

ctxSet(st, key, value, codec) == [st EXCEPT ![key] = Cell(codec, value)]

\* a clear that empties the whole object
ctxClear_AllKeys(st, key) == EmptyStore

ctxClear(st, key) == [st EXCEPT ![key] = NoCell]

NullishOr_AlwaysFallback(st, key, codec, fallback) == fallback

\* (await getState(key)) ?? fallback
NullishOr(st, key, codec, fallback) ==
  IF st[key].codec = "none" THEN fallback ELSE ctxGet(st, key, codec)

(***************************************************************************)
(* utils: which codec get / set / run hand to the runtime.  Three drafts   *)
(* of the adapters coexist:                                                *)
(*   "src"        src/typed-*.ts over src/utils.ts                         *)
(*   "primitives" primitives/typed-service.ts, primitives/typed-workflow.ts*)
(*                and createRestateObject over primitives/utils.ts         *)
(*   "hybrid"     primitives/typed-object.ts over primitives/utils.ts      *)
(* An opts value is represented by its serde field (NoCodec when opts or   *)
(* the field is absent).                                                   *)
(***************************************************************************)
Drafts == {"src", "primitives", "hybrid"}
SerdeOptions == {NoCodec, "json", "superjson", "serdeB"}

resolveSerde(optsSerde) ==
  IF optsSerde = NoCodec \/ optsSerde = "superjson" THEN "superjsonserde"
  ELSE IF optsSerde = "json" THEN NoCodec
  ELSE optsSerde

\* getState: rawGet(ctx, key, new SerdeClass()) | rawGet(ctx, key, opts)
\*           | rawGet(ctx, key, new SerdeClass(), opts)
getCodec(d, codec, optsSerde) ==
  CASE d = "src" -> codec
    [] d = "primitives" -> resolveSerde(optsSerde)
    [] OTHER -> resolveSerde(NoCodec)

\* setState: rawSet(ctx, key, value, new SerdeClass()) | rawSet(ctx, key, value, opts)
setCodec(d, codec, optsSerde) ==
  CASE d = "src" -> codec
    [] OTHER -> resolveSerde(optsSerde)

\* runStep: ctx.run(name, action, {...opts, serde}) | {...opts, serde: resolveSerde(opts)}
runCodec(d, codec, optsSerde) ==
  CASE d = "src" -> codec
    [] d = "primitives" -> resolveSerde(optsSerde)
    [] OTHER -> resolveSerde(NoCodec)

(***************************************************************************)
(* Context builders: the members of the context object handed to the       *)
(* declared handler.                                                       *)
(***************************************************************************)
clientMethods(d, kind) ==
  {"service", "serviceSend", "object", "objectSend", "workflow"}
    \cup (IF d = "primitives" /\ kind # "handler" THEN {} ELSE {"workflowSend"})

serviceContext(d) == {"ctx", "runStep"} \cup clientMethods(d, "handler")

objectContext(d) ==
  {"clearState", "ctx", "getState", "runStep", "setState"}
    \cup clientMethods(d, "exclusive")

workflowContext(d) ==
  {"clearState", "ctx", "getState", "setState", "runStep"}
    \cup clientMethods(d, "workflow")

workflowSharedContext_WithWriters(d) == workflowContext(d)

workflowSharedContext(d) ==
  {"ctx", "getState", "runStep"} \cup clientMethods(d, "shared")

\* { ...context, eventUuid, eventTimestamp }
eventContext(context) == context \cup {"eventUuid", "eventTimestamp"}

BuildContext(d, primitive, kind) ==
  CASE kind = "handler" -> serviceContext(d)
    [] kind = "workflow" -> workflowContext(d)
    [] kind = "shared" -> workflowSharedContext(d)
    [] OTHER -> IF primitive = "event" THEN eventContext(objectContext(d))
                ELSE objectContext(d)

(***************************************************************************)
(* What the wrapped handler hands back to the runtime.                     *)
(***************************************************************************)
Outcome(type, v) == [type |-> type, v |-> v]
NoOutcome == Outcome("none", Null)

\* return handlerFn(context, ...args)
wrapperOutcome_Substituted(declared) == Outcome("return", Null)

wrapperOutcome(declared) == declared

\* createEventObject: the event appended after the handler resolved
\* { event: eventName, data, timestamp: eventTimestamp, uuid: eventUuid }
EventRecord(eventName, data, eventTimestamp, eventUuid) ==
  [event |-> eventName, data |-> data, timestamp |-> eventTimestamp, uuid |-> eventUuid]

\* a wrapper that stores the new event in place of the list
appendEvent_ListReplaced(st, codec, event) ==
  ctxSet(st, "events", << event >>, codec)

appendEvent(st, codec, event) ==
  ctxSet(st, "events", Append(NullishOr(st, "events", codec, << >>), event), codec)

\* a wrapper that appends the event in a finally block
storeAfterHandler_AppendsAlways(st, primitive, settled, codec, event) ==
  IF primitive = "event" THEN appendEvent(st, codec, event) ELSE st

\* the state a wrapper leaves once the declared handler has settled: the
\* event-object wrapper's append comes after `await handler(...)`, so it is
\* reached only when the handler resolved
storeAfterHandler(st, primitive, settled, codec, event) ==
  IF primitive = "event" /\ settled = "return"
  THEN appendEvent(st, codec, event)
  ELSE st

\* typeof of the values an event record's uuid and timestamp can hold
typeOf(x) ==
  CASE x = "Promise<number>" -> "object"
    [] x = "none" -> "undefined"
    [] OTHER -> "string"

(***************************************************************************)
(* The codecs shipped in the repository.  A value is a tree: t is its      *)
(* JavaScript type, n and s its numeric and textual content, keys / items  *)
(* the entries of an object or the elements of an array.  A JSON text is   *)
(* written as the tree JSON.parse reads from it; EmptyBytes is the empty   *)
(* text and Thrown(e) an exception.                                        *)
(***************************************************************************)
Val(t, n, s) == [t |-> t, n |-> n, s |-> s, keys |-> << >>, items |-> << >>]
Num(n) == Val("number", n, "")
Str(s) == Val("string", 0, s)
Bool(n) == Val("boolean", n, "")
NullVal == Val("null", 0, "")
Undefined == Val("undefined", 0, "")
DateVal(n) == Val("Date", n, "")
BigIntVal(n) == Val("bigint", n, "")
Arr(items) == [t |-> "array", n |-> 0, s |-> "", keys |-> << >>, items |-> items]
Obj(keys, items) == [t |-> "object", n |-> 0, s |-> "", keys |-> keys, items |-> items]
Thrown(e) == Val("throw", 0, e)
EmptyBytes == Val("empty", 0, "")

\* Date.prototype.toISOString / BigInt.prototype.toString: text fixed by n
toISOString(v) == Val("string", v.n, "iso")
bigintToString(v) == Val("string", v.n, "digits")

Indices(seq) == [i \in 1..Len(seq) |-> i]
AnyThrown(seq) == \E i \in 1..Len(seq) : seq[i].t = "throw"

\* JSON.stringify: a Date becomes its ISO string, a bigint raises TypeError,
\* undefined has no text, is null inside an array and is left out of an object
RECURSIVE stringify(_)
stringify(v) ==
  CASE v.t = "Date" -> toISOString(v)
    [] v.t = "bigint" -> Thrown("TypeError")
    [] v.t = "array" ->
         LET texts == [i \in 1..Len(v.items) |-> stringify(v.items[i])]
         IN IF AnyThrown(texts) THEN Thrown("TypeError")
            ELSE Arr([i \in 1..Len(texts) |->
                       IF texts[i].t = "undefined" THEN NullVal ELSE texts[i]])
    [] v.t = "object" ->
         LET texts == [i \in 1..Len(v.items) |-> stringify(v.items[i])]
             Kept(i) == texts[i].t # "undefined"
             kept == SelectSeq(Indices(texts), Kept)
         IN IF AnyThrown(texts) THEN Thrown("TypeError")
            ELSE Obj([i \in 1..Len(kept) |-> v.keys[kept[i]]],
                     [i \in 1..Len(kept) |-> texts[kept[i]]])
    [] OTHER -> v

\* new TextEncoder().encode(text): encode(undefined) is the empty byte string
encode(text) == IF text.t = "undefined" THEN EmptyBytes ELSE text

\* JSON.parse(new TextDecoder().decode(bytes)): the empty text is a SyntaxError
parse(bytes) == IF bytes.t = "empty" THEN Thrown("SyntaxError") ELSE bytes

HasKey(v, key) == \E i \in 1..Len(v.keys) : v.keys[i] = key
Field(v, key) == v.items[CHOOSE i \in 1..Len(v.keys) : v.keys[i] = key]

\* SuperJsonSerde.replacer of the example (Date and bigint of its special
\* types; Set, Map and RegExp values are not among the values sent)
RECURSIVE replacer(_)
replacer(v) ==
  CASE v.t = "Date" -> Obj(<< "__type", "value" >>, << Str("Date"), toISOString(v) >>)
    [] v.t = "bigint" -> Obj(<< "__type", "value" >>, << Str("BigInt"), bigintToString(v) >>)
    [] v.t = "array" -> Arr([i \in 1..Len(v.items) |-> replacer(v.items[i])])
    [] v.t = "object" -> Obj(v.keys, [i \in 1..Len(v.items) |-> replacer(v.items[i])])
    [] OTHER -> v

\* SuperJsonSerde.reviver of the example
RECURSIVE reviver(_)
reviver(v) ==
  IF v.t = "object" /\ HasKey(v, "__type") /\ HasKey(v, "value")
       /\ Field(v, "__type") = Str("Date")
  THEN DateVal(Field(v, "value").n)
  ELSE IF v.t = "object" /\ HasKey(v, "__type") /\ HasKey(v, "value")
            /\ Field(v, "__type") = Str("BigInt")
  THEN BigIntVal(Field(v, "value").n)
  ELSE IF v.t = "array" THEN Arr([i \in 1..Len(v.items) |-> reviver(v.items[i])])
  ELSE IF v.t = "object"
  THEN Obj(v.keys, [i \in 1..Len(v.items) |-> reviver(v.items[i])])
  ELSE v

\* superjsonserde and SuperJsonSerde of serde.ts, JsonSerde and SuperJsonSerde
\* of the example
SerdeImpls == {"superjsonserde", "SuperJsonSerde", "JsonSerde", "ExampleSuperJsonSerde"}

serialize(impl, v) ==
  LET text == IF impl = "ExampleSuperJsonSerde" THEN stringify(replacer(v))
              ELSE stringify(v)
  IN IF text.t = "throw" THEN text ELSE encode(text)

deserialize(impl, bytes) ==
  LET json == parse(bytes)
  IN IF json.t = "throw" THEN json
     ELSE IF impl = "ExampleSuperJsonSerde" THEN reviver(json)
     ELSE json

(***************************************************************************)
(* Standalone clients: the base URL of a configuration and the ingress     *)
(* connection a standalone client is built on.  Two drafts of the          *)
(* standalone creators coexist:                                            *)
(*   "perCall"  createServiceClient(service, serde, url): restate.connect  *)
(*              for every client built                                     *)
(*   "cached"   a module-level URL and one lazily opened connection; the   *)
(*              creators take no URL                                       *)
(***************************************************************************)
Undef == "undefined"      \* an absent argument, an unset environment variable
DefaultUrl == "http://localhost:8080"
EnvValues == {Undef, "", "http://restate-env:8080"}
ExplicitValues == {Undef, "", "http://restate-a:8080", "http://restate-b:8080"}
StandaloneDrafts == {"perCall", "cached"}
StandaloneKinds ==
  {"service", "serviceSend", "object", "objectSend", "workflow", "workflowSend"}

\* a ?? b
Nullish(a, b) == IF a = Undef THEN b ELSE a

\* a || b
Falsy(a, b) == IF a = Undef \/ a = "" THEN b ELSE a

\* restateUrl ?? process.env.RESTATE_URL ?? "http://localhost:8080"
\* process.env.RESTATE_URL || "http://localhost:8080"
resolveUrl(sdraft, explicit, env) ==
  IF sdraft = "perCall" THEN Nullish(explicit, Nullish(env, DefaultUrl))
  ELSE Falsy(env, DefaultUrl)

\* a creator that drops its url argument and connects to the default URL
ingressFor_DefaultUrl(sdraft, cached, url) == Nullish(cached, DefaultUrl)

\* restate.connect({ url }) | ingress ??= restate.connect({ url: restateUrl })
ingressFor(sdraft, cached, url) ==
  IF sdraft = "perCall" THEN url ELSE Nullish(cached, url)

\* a getter that connects on every use: ingress = restate.connect(...)
connectsOnUse_Always(sdraft, cached) == TRUE

\* whether restate.connect is called: on every construction, or only while
\* the module-level ingress is unset (ingress ??= ...)
connectsOnUse(sdraft, cached) == sdraft = "perCall" \/ cached = Undef

\* the wrapper applied to the raw ingress client
standaloneWrap(kind) ==
  CASE kind \in {"service", "object"} -> "wrapIngressClient"
    [] kind \in {"serviceSend", "objectSend"} -> "wrapIngressSendClient"
    [] OTHER -> "wrapIngressWorkflowClient"

(***************************************************************************)
(* State.                                                                  *)
(***************************************************************************)
VARIABLES
  serde,      \* the configured codec (FactoryConfig.serde / SerdeClass)
  call,       \* the last call through a wrapped client:
              \*   wrap: the wrapper, sent: the caller's args,
              \*   received: the args the raw client method was applied to
  typed,      \* the last type derivation: the declared handler map, the
              \*   runtime handler types and the client method types
  definition, \* the last definition built: primitive, declared handler keys
              \*   and the registered handlers
  draft,      \* which draft of the adapters the definition was built by
  inv,        \* the invocation in progress: its handler, the built context,
              \*   the last context operation and the outcomes
  store,      \* the runtime's state of the invoked object / workflow instance
  counter,    \* the counter object: per object key its state, the handler's
              \*   position and what the invocations returned
  trip,       \* a value on its way through a codec: serialize, then deserialize
  standalone, \* the process outside the runtime: environment, configuration,
              \*   cached ingress connection and the standalone clients built
  flights,    \* the invocations in flight side by side, each with its raw
              \*   context, its built context and its delegated calls
  keyed       \* one object key with invocations submitted together: the
              \*   queue, the running handler bodies and the key's state

vars == << serde, call, typed, definition, draft, inv, store, counter,
           trip, standalone, flights, keyed >>
laterVars == << trip, standalone, flights, keyed >>
otherVars == << draft, inv, store, counter, laterVars >>
coreVars == << serde, call, typed, definition, draft, inv, store, counter >>

NoCall == [wrap |-> "none", sent |-> << >>, received |-> << >>]

(***************************************************************************)
(* The argument lists a caller can pass: up to MaxArgs domain values,      *)
(* optionally followed by an options object built with rpc.opts /          *)
(* rpc.sendOpts of either SDK package.                                     *)
(***************************************************************************)
DomainVals == 1..MaxDomainVal
Flag == {0, 1}

DomainPrefixes ==
  UNION { [1..n -> {DomainArg(v) : v \in DomainVals}] : n \in 0..MaxArgs }

CallerOpts ==
  { rpcOpts(m, OptFields(i, o, d, k)) :
      m \in {"sdk", "ingress"}, i \in MaybeCodec, o \in MaybeCodec, d \in Flag, k \in Flag }
  \cup
  { rpcSendOpts(m, OptFields(i, NoCodec, d, k)) :
      m \in {"sdk", "ingress"}, i \in MaybeCodec, d \in Flag, k \in Flag }

ArgLists == DomainPrefixes \cup { Append(p, o) : p \in DomainPrefixes, o \in CallerOpts }

NoOp == [op |-> "none", key |-> "none", opts |-> NoCodec, codec |-> NoCodec,
         value |-> Null, expect |-> NoWrite]
NoInv == [pc |-> "idle", handler |-> "none", kind |-> "none", built |-> {},
          data |-> Null, eventUuid |-> "none", eventTimestamp |-> "none",
          eventsAtSettle |-> << >>, succeeded |-> 0,
          plainWrite |-> [k \in StateKeys |-> NoWrite],
          last |-> NoOp, declared |-> NoOutcome, observed |-> NoOutcome]
ObjectKeys == {"k1", "k2"}
NoCounter == [k \in ObjectKeys |->
               [store |-> EmptyStore, pc |-> "idle", currentCount |-> Null,
                newCount |-> Null, returned |-> << >>]]
NoTrip == [pc |-> "idle", impl |-> "none", value |-> Undefined,
           bytes |-> EmptyBytes, result |-> Undefined]
NoStandalone == [sdraft |-> "perCall", env |-> Undef, configured |-> FALSE,
                 explicit |-> Undef, url |-> Undef, ingress |-> Undef,
                 ingressId |-> 0, returned |-> << >>,
                 connects |-> 0, clients |-> << >>]
Slots == {"first", "second"}     \* invocations that can be in flight together
NoFlight == [pc |-> "free", kind |-> "none", rawCtx |-> 0, boundCtx |-> 0,
             args |-> << >>, calls |-> << >>, op |-> "none", opTarget |-> 0,
             raised |-> "none", surfaced |-> "none", attempts |-> 0,
             outcome |-> "none"]
NoOutside == [op |-> "none", raised |-> "none", surfaced |-> "none", attempts |-> 0]
NoFlights == [delivered |-> 0, slots |-> [s \in Slots |-> NoFlight],
              outside |-> NoOutside]
NoBody == [pc |-> "free", seq |-> 0, currentCount |-> Null, eventsList |-> << >>]
NoKeyed == [handler |-> "none", kind |-> "none", submitted |-> 0, pending |-> 0,
            started |-> 0, completed |-> 0,
            bodies |-> [s \in Slots |-> NoBody], store |-> EmptyStore]
LaterIdle ==
  /\ trip = NoTrip
  /\ standalone = NoStandalone
  /\ flights = NoFlights
  /\ keyed = NoKeyed

Idle ==
  /\ draft = "src"
  /\ inv = NoInv
  /\ store = EmptyStore
  /\ counter = NoCounter
  /\ LaterIdle

NoTyped == [transform |-> "none", declared |-> << >>, runtime |-> << >>, client |-> << >>]
NoDefinition == [primitive |-> "none", form |-> "none", declared |-> {}, handlers |-> {}]

InitClient ==
  /\ serde \in Codecs
  /\ call = NoCall
  /\ typed = NoTyped
  /\ definition = NoDefinition
  /\ Idle

\* A method of a wrapped client is called with some argument list: the Proxy's
\* wrapped function runs argsHandler(args, serde) and applies the raw method
\* to the result.
WrappedCall ==
  /\ call.wrap = "none"
  /\ \E w \in WrapKinds, args \in ArgLists :
       call' = [wrap |-> w, sent |-> args,
                received |-> createClientWrapper(w, args, serde)]
  /\ UNCHANGED << serde, typed, definition, otherVars >>

\* The raw method's promise settles; the client is ready for the next call.
RawCallSettles ==
  /\ call.wrap # "none"
  /\ call' = NoCall
  /\ UNCHANGED << serde, typed, definition, otherVars >>

NextClient == WrappedCall \/ RawCallSettles

SpecClient == InitClient /\ [][NextClient]_vars

Last(s) == s[Len(s)]

\* C1: a call client given a trailing call-options value passes the raw method
\* an options value in that position whose input (output) codec is the caller's
\* when set and the configured codec otherwise.
C1_ExplicitCodecWins ==
  (/\ call.wrap \in CallWrapKinds
   /\ Len(call.sent) > 0
   /\ Last(call.sent).cls = OptsClassOf(call.wrap))
  => /\ Len(call.received) = Len(call.sent)
     /\ Last(call.received).cls = OptsClassOf(call.wrap)
     /\ Last(call.received).input =
          (IF Last(call.sent).input # NoCodec THEN Last(call.sent).input ELSE serde)
     /\ Last(call.received).output =
          (IF Last(call.sent).output # NoCodec THEN Last(call.sent).output ELSE serde)

C1_Witness ==
  /\ call.wrap = "wrapIngressClient"
  /\ Len(call.sent) = 2
  /\ Last(call.sent).cls = "IngressOpts"
  /\ Last(call.sent).input \in Codecs \ {serde}
  /\ Last(call.sent).output = NoCodec
  /\ Last(call.received).input = Last(call.sent).input
  /\ Last(call.received).output = serde

\* C2: a call client given at least one argument, the last of which is no
\* call-options value, passes the raw method the same arguments followed by
\* exactly one new call-options value with the configured codec as input and
\* output codec.
C2_OptionsAppended ==
  (/\ call.wrap \in CallWrapKinds
   /\ Len(call.sent) > 0
   /\ Last(call.sent).cls # OptsClassOf(call.wrap))
  => /\ Len(call.received) = Len(call.sent) + 1
     /\ SubSeq(call.received, 1, Len(call.sent)) = call.sent
     /\ Last(call.received).cls = OptsClassOf(call.wrap)
     /\ Last(call.received).input = serde
     /\ Last(call.received).output = serde

C2_Witness ==
  /\ call.wrap = "wrapClient"
  /\ Len(call.sent) = 2
  /\ Last(call.sent).cls = "value"
  /\ Len(call.received) = 3
  /\ Last(call.received).cls = "Opts"

\* C3 as stated: a call with zero arguments makes the raw method receive exactly
\* one argument, the injected options value with the configured codec.
C3_SoleOptionsArgument ==
  (call.wrap # "none" /\ Len(call.sent) = 0)
  => /\ Len(call.received) = 1
     /\ call.received[1].cls = OptsClassOf(call.wrap)
     /\ call.received[1].input = serde

\* C3 amended: a call with zero arguments makes the raw method receive exactly
\* two arguments: the empty object {} and then the injected options value, which
\* carries the configured codec (as input and output codec on a call client, as
\* input codec on a send client).
C3_EmptyObjectThenOptions ==
  (call.wrap # "none" /\ Len(call.sent) = 0)
  => /\ Len(call.received) = 2
     /\ call.received[1] = EmptyObject
     /\ call.received[2].cls = OptsClassOf(call.wrap)
     /\ call.received[2].input = serde
     /\ call.wrap \in CallWrapKinds => call.received[2].output = serde

C3_Witness ==
  /\ call.wrap = "wrapClient"
  /\ Len(call.sent) = 0
  /\ Len(call.received) = 2

(***************************************************************************)
(* Type derivation: a handler map is declared and the compiler derives the *)
(* runtime handler types and the client method types from it.              *)
(***************************************************************************)
ArgTypes == {"string", "number"}
RetTypes == {"Promise<string>", "Promise<void>"}
MethodNames == {"method1", "method2"}

Signatures ==
  { FnType("BuiltContext", a, r) :
      a \in UNION { [1..n -> ArgTypes] : n \in 0..MaxArity }, r \in RetTypes }

HandlerMaps == UNION { [ks -> Signatures] : ks \in SUBSET MethodNames }

InitTypes ==
  /\ serde \in Codecs
  /\ call = NoCall
  /\ typed = NoTyped
  /\ definition = NoDefinition
  /\ Idle

DeriveTypes ==
  /\ typed.transform = "none"
  /\ \E t \in Transforms, H \in HandlerMaps :
       typed' = [transform |-> t, declared |-> H,
                 runtime |-> TransformHandlers(t, H),
                 client |-> HandlersToClient(TransformHandlers(t, H))]
  /\ UNCHANGED << serde, call, definition, otherVars >>

ForgetTypes ==
  /\ typed.transform # "none"
  /\ typed' = NoTyped
  /\ UNCHANGED << serde, call, definition, otherVars >>

NextTypes == DeriveTypes \/ ForgetTypes

SpecTypes == InitTypes /\ [][NextTypes]_vars

\* C4: for every declared handler (context, a1..an) -> Promise<R>, n >= 0, the
\* runtime handler type is (rawContext, a1..an) -> Promise<R> and the client
\* method type is (a1..an) -> Promise<R>, never `never`; the client map has
\* exactly the keys of the handler map.
C4_SignaturesPreserved ==
  typed.transform # "none" =>
    /\ DOMAIN typed.client = DOMAIN typed.declared
    /\ \A k \in DOMAIN typed.declared :
         /\ typed.runtime[k] # Never
         /\ typed.runtime[k].ctx = RawContextOf(typed.transform)
         /\ typed.runtime[k].args = typed.declared[k].args
         /\ typed.runtime[k].ret = typed.declared[k].ret
         /\ typed.client[k] # Never
         /\ typed.client[k].args = typed.declared[k].args
         /\ typed.client[k].ret = typed.declared[k].ret

(***************************************************************************)
(* Definition building.                                                    *)
(***************************************************************************)
HandlerNames == {"run", "a", "b", "handlers"}

\* the handler maps a primitive accepts: a workflow's must contain `run`
DeclarableKeys(primitive) ==
  IF primitive = "workflow"
  THEN { ks \in SUBSET HandlerNames : "run" \in ks }
  ELSE SUBSET HandlerNames

InitDefine ==
  /\ serde \in Codecs
  /\ call = NoCall
  /\ typed = NoTyped
  /\ definition = NoDefinition
  /\ Idle

Define ==
  /\ definition.primitive = "none"
  /\ \E p \in Primitives : \E ks \in DeclarableKeys(p) :
       definition' = [primitive |-> p, form |-> "adapter", declared |-> ks,
                      handlers |-> BuildDefinition(p, ks, serde)]
  /\ UNCHANGED << serde, call, typed, otherVars >>

\* Factory.object(name, definition) with a direct handler map or a wrapper
FactoryObject ==
  /\ definition.primitive = "none"
  /\ \E form \in ObjectForms, ks \in SUBSET HandlerNames, withState \in BOOLEAN :
       definition' = [primitive |-> "object", form |-> form, declared |-> ks,
                      handlers |-> factoryObject(form, ks, withState, serde)]
  /\ UNCHANGED << serde, call, typed, otherVars >>

Discard ==
  /\ definition.primitive # "none"
  /\ definition' = NoDefinition
  /\ UNCHANGED << serde, call, typed, otherVars >>

NextDefine == Define \/ FactoryObject \/ Discard

SpecDefine == InitDefine /\ [][NextDefine]_vars

NamesOfKind(kind) == { h.name : h \in { r \in definition.handlers : r.kind = kind } }

\* C5: a workflow definition registers `run`, and only `run`, as a run-kind
\* handler and exactly the other declared keys as shared-kind handlers; for
\* {run, a, b} that is one run-kind and two shared-kind handlers.
C5_RunAndSharedKinds ==
  definition.primitive = "workflow" =>
    /\ NamesOfKind("workflow") = {"run"}
    /\ NamesOfKind("shared") = definition.declared \ {"run"}
    /\ \A h \in definition.handlers : h.kind \in {"workflow", "shared"}
    /\ Cardinality(definition.handlers) = Cardinality(definition.declared)
    /\ definition.declared = {"run", "a", "b"} =>
         /\ Cardinality({ r \in definition.handlers : r.kind = "workflow" }) = 1
         /\ Cardinality({ r \in definition.handlers : r.kind = "shared" }) = 2

C5_Witness ==
  /\ definition.primitive = "workflow"
  /\ definition.declared = {"run", "a", "b"}
  /\ NamesOfKind("shared") = {"a", "b"}

HandlerNamesOf(def) == { h.name : h \in def.handlers }

\* C11: every handler of a definition built from one configuration is
\* registered with the configured codec as its input codec and as its output
\* codec; none has a different or a missing codec.
C11_UniformCodec ==
  \A h \in definition.handlers : h.input = serde /\ h.output = serde

C11_Witness ==
  /\ definition.primitive = "workflow"
  /\ definition.declared = {"run", "a", "b"}
  /\ Cardinality(definition.handlers) = 3
  /\ \A h \in definition.handlers : h.input = serde /\ h.output = serde

\* C15: Factory.object accepts a direct handler map and a wrapper
\* {state?, handlers}; in both cases the handlers of the produced definition
\* are exactly the declared handlers, whatever the handlers are named.
C15_FactoryObjectHandlers ==
  definition.form \in ObjectForms =>
    HandlerNamesOf(definition) = definition.declared

\* C16: building a service from an empty handler map yields a definition
\* whose handler set is empty.
C16_EmptyService ==
  (definition.primitive = "service" /\ definition.declared = {}) =>
    definition.handlers = {}

C16_Witness ==
  /\ definition.primitive = "service"
  /\ definition.form = "adapter"
  /\ definition.declared = {}
  /\ definition.handlers = {}

\* C20: the handler names of the definition an adapter produces from a handler
\* map H are exactly the keys of H (for a workflow: run and the shared keys),
\* one handler per key.
C20_NamesAreKeys ==
  definition.form = "adapter" =>
    /\ HandlerNamesOf(definition) = definition.declared
    /\ Cardinality(definition.handlers) = Cardinality(definition.declared)

C20_Witness ==
  /\ definition.primitive = "event"
  /\ definition.declared = {"a", "b", "handlers"}
  /\ HandlerNamesOf(definition) = {"a", "b", "handlers"}

(***************************************************************************)
(* Invocations: the runtime delivers an invocation to a wrapped handler of *)
(* the deployed definition; the declared handler uses its context and      *)
(* settles; the wrapper hands the outcome back to the runtime.             *)
(***************************************************************************)
MaxEvents == 2        \* event-object invocations are delivered while the
                      \* events list is shorter than this

\* the payload an invocation carries
EventData == {1, 2}

\* context.ctx.rand.uuidv4(): seeded by the invocation, so the invocations
\* whose events are recorded draw different ones; context.ctx.date.now() is
\* not awaited
Uuids == << "uuid-1", "uuid-2", "uuid-3", "uuid-4" >>
DateNow == "Promise<number>"

\* the definitions deployed, each by a draft that has the primitive
Deployments ==
  { [draft |-> "src", primitive |-> pr] : pr \in Primitives }
    \cup { [draft |-> "primitives", primitive |-> pr] :
             pr \in {"service", "object", "workflow"} }
    \cup { [draft |-> "hybrid", primitive |-> "object"] }

DeployedKeys(primitive) == IF primitive = "workflow" THEN {"run", "a"} ELSE {"a"}

Init ==
  /\ serde \in Codecs
  /\ call = NoCall
  /\ typed = NoTyped
  /\ \E dep \in Deployments :
       /\ draft = dep.draft
       /\ definition = [primitive |-> dep.primitive, form |-> "adapter",
                        declared |-> DeployedKeys(dep.primitive),
                        handlers |-> BuildDefinition(dep.primitive,
                                       DeployedKeys(dep.primitive), serde)]
  /\ inv = NoInv
  /\ store = EmptyStore
  /\ counter = NoCounter
  /\ LaterIdle

EventsLen == IF store["events"].codec = "none" THEN 0 ELSE Len(store["events"].value)

Invoke ==
  /\ inv.pc = "idle"
  /\ definition.primitive = "event" => EventsLen < MaxEvents
  /\ \E h \in definition.handlers, data \in EventData,
        u \in IF definition.primitive = "event"
              THEN {Uuids[EventsLen + 1]} ELSE {"none"} :
       inv' = [NoInv EXCEPT !.succeeded = inv.succeeded,
                            !.pc = "running", !.handler = h.name, !.kind = h.kind,
                            !.built = BuildContext(draft, definition.primitive, h.kind),
                            !.data = data, !.eventUuid = u,
                            !.eventTimestamp = IF definition.primitive = "event"
                                               THEN DateNow ELSE "none"]
  /\ UNCHANGED << serde, call, typed, definition, draft, store, counter, laterVars >>

GetState ==
  /\ inv.pc = "running"
  /\ "getState" \in inv.built
  /\ \E k \in StateKeys, o \in SerdeOptions :
       inv' = [inv EXCEPT !.last =
                 [op |-> "get", key |-> k, opts |-> o,
                  codec |-> getCodec(draft, serde, o),
                  value |-> ctxGet(store, k, getCodec(draft, serde, o)),
                  expect |-> IF o = NoCodec THEN inv.plainWrite[k] ELSE NoWrite]]
  /\ UNCHANGED << serde, call, typed, definition, draft, store, counter, laterVars >>

SetState ==
  /\ inv.pc = "running"
  /\ "setState" \in inv.built
  /\ \E k \in StateKeys, v \in DomainVals, o \in SerdeOptions :
       /\ store' = ctxSet(store, k, v, setCodec(draft, serde, o))
       /\ inv' = [inv EXCEPT !.plainWrite[k] = IF o = NoCodec THEN v ELSE NoWrite,
                             !.last = [op |-> "set", key |-> k, opts |-> o,
                                       codec |-> setCodec(draft, serde, o),
                                       value |-> v, expect |-> NoWrite]]
  /\ UNCHANGED << serde, call, typed, definition, draft, counter, laterVars >>

ClearState ==
  /\ inv.pc = "running"
  /\ "clearState" \in inv.built
  /\ \E k \in StateKeys :
       /\ store' = ctxClear(store, k)
       /\ inv' = [inv EXCEPT !.plainWrite[k] = NoWrite,
                             !.last = [NoOp EXCEPT !.op = "clear", !.key = k]]
  /\ UNCHANGED << serde, call, typed, definition, draft, counter, laterVars >>

RunStep ==
  /\ inv.pc = "running"
  /\ "runStep" \in inv.built
  /\ \E o \in SerdeOptions :
       inv' = [inv EXCEPT !.last = [NoOp EXCEPT !.op = "run", !.opts = o,
                                       !.codec = runCodec(draft, serde, o)]]
  /\ UNCHANGED << serde, call, typed, definition, draft, store, counter, laterVars >>

\* the declared handler resolves; an event object's wrapper appends the event
\* before it returns the result
HandlerReturns ==
  /\ inv.pc = "running"
  /\ \E v \in DomainVals :
       inv' = [inv EXCEPT !.pc = "settled",
                          !.declared = Outcome("return", v),
                          !.observed = wrapperOutcome(Outcome("return", v)),
                          !.eventsAtSettle =
                             NullishOr(store, "events", getCodec(draft, serde, NoCodec), << >>),
                          !.succeeded = IF definition.primitive = "event"
                                        THEN inv.succeeded + 1 ELSE inv.succeeded]
  /\ store' = storeAfterHandler(store, definition.primitive, "return",
                                getCodec(draft, serde, NoCodec),
                                EventRecord(inv.handler, inv.data,
                                            inv.eventTimestamp, inv.eventUuid))
  /\ UNCHANGED << serde, call, typed, definition, draft, counter, laterVars >>

\* the declared handler rejects
HandlerRejects ==
  /\ inv.pc = "running"
  /\ \E e \in DomainVals :
       inv' = [inv EXCEPT !.pc = "settled",
                          !.declared = Outcome("reject", e),
                          !.observed = wrapperOutcome(Outcome("reject", e)),
                          !.eventsAtSettle =
                             NullishOr(store, "events", getCodec(draft, serde, NoCodec), << >>)]
  /\ store' = storeAfterHandler(store, definition.primitive, "reject",
                                getCodec(draft, serde, NoCodec),
                                EventRecord(inv.handler, inv.data,
                                            inv.eventTimestamp, inv.eventUuid))
  /\ UNCHANGED << serde, call, typed, definition, draft, counter, laterVars >>

Complete ==
  /\ inv.pc = "settled"
  /\ inv' = [NoInv EXCEPT !.succeeded = inv.succeeded]
  /\ UNCHANGED << serde, call, typed, definition, draft, store, counter, laterVars >>

Next ==
  \/ Invoke
  \/ GetState
  \/ SetState
  \/ ClearState
  \/ RunStep
  \/ HandlerReturns
  \/ HandlerRejects
  \/ Complete

Spec == Init /\ [][Next]_vars

StateAccessors == {"getState", "setState", "clearState"}

\* C6: the context built for a non-run workflow handler has no setState and no
\* clearState member at all, while the context built for an object handler or
\* for the workflow run handler has getState, setState and clearState.
C6_SharedContextReadOnly ==
  inv.pc # "idle" =>
    /\ inv.kind = "shared" => inv.built \cap {"setState", "clearState"} = {}
    /\ inv.kind \in {"exclusive", "workflow"} => StateAccessors \subseteq inv.built

C6_Witness ==
  /\ inv.pc = "running"
  /\ inv.kind = "shared"
  /\ inv.last.op = "get"

OptsCodec(optsSerde) ==
  IF optsSerde = "json" THEN NoCodec
  ELSE IF optsSerde = "superjson" THEN "superjsonserde"
  ELSE optsSerde

\* C9: runStep(name, action, opts) calls the runtime's durable step with the
\* codec given in opts when opts supplies one and with the configured codec
\* when opts is absent or supplies none.
C9_RunStepCodec ==
  inv.last.op = "run" =>
    inv.last.codec = IF inv.last.opts = NoCodec THEN serde
                     ELSE OptsCodec(inv.last.opts)

\* C10: for every wrapped handler (service, object, workflow run, workflow
\* shared, event object) the outcome the runtime observes is the declared
\* handler's own: the same returned value, or the same rejection.
C10_OutcomeUnchanged ==
  inv.pc = "settled" =>
    /\ inv.declared.type \in {"return", "reject"}
    /\ inv.observed = inv.declared

C10_Witness ==
  /\ inv.pc = "settled"
  /\ definition.primitive = "event"
  /\ inv.declared = Outcome("reject", 2)
  /\ inv.observed = Outcome("reject", 2)

(***************************************************************************)
(* The counter object: increment reads count (0 when absent), writes       *)
(* count + 1 and returns the new value.  The handler is exclusive, so the  *)
(* invocations on one object key run one after the other; invocations on  *)
(* different keys interleave.                                              *)
(***************************************************************************)
MaxInvocations == 3   \* invocations delivered per object key

InitCounter ==
  /\ serde \in Codecs
  /\ call = NoCall
  /\ typed = NoTyped
  /\ draft \in Drafts
  /\ definition = [primitive |-> "object", form |-> "adapter",
                   declared |-> {"increment"},
                   handlers |-> BuildDefinition("object", {"increment"}, serde)]
  /\ inv = NoInv
  /\ store = EmptyStore
  /\ counter = NoCounter
  /\ LaterIdle

IncrementInvoked ==
  \E key \in ObjectKeys :
    /\ counter[key].pc = "idle"
    /\ Len(counter[key].returned) < MaxInvocations
    /\ counter' = [counter EXCEPT ![key].pc = "read",
                                  ![key].currentCount = Null,
                                  ![key].newCount = Null]
    /\ UNCHANGED << serde, call, typed, definition, draft, inv, store, laterVars >>

\* const currentCount = (await getState("count")) ?? 0;
\* const newCount = currentCount + 1;
IncrementRead ==
  \E key \in ObjectKeys :
    /\ counter[key].pc = "read"
    /\ counter' = [counter EXCEPT
         ![key].pc = "write",
         ![key].currentCount =
            NullishOr(counter[key].store, "count", getCodec(draft, serde, NoCodec), 0),
         ![key].newCount =
            NullishOr(counter[key].store, "count", getCodec(draft, serde, NoCodec), 0) + 1]
    /\ UNCHANGED << serde, call, typed, definition, draft, inv, store, laterVars >>

\* await setState("count", newCount);
IncrementWrite ==
  \E key \in ObjectKeys :
    /\ counter[key].pc = "write"
    /\ counter' = [counter EXCEPT
         ![key].pc = "return",
         ![key].store = ctxSet(counter[key].store, "count", counter[key].newCount,
                               setCodec(draft, serde, NoCodec))]
    /\ UNCHANGED << serde, call, typed, definition, draft, inv, store, laterVars >>

\* return newCount;
IncrementReturn ==
  \E key \in ObjectKeys :
    /\ counter[key].pc = "return"
    /\ counter' = [counter EXCEPT
         ![key].pc = "idle",
         ![key].returned = Append(counter[key].returned,
                                  wrapperOutcome(Outcome("return", counter[key].newCount)).v)]
    /\ UNCHANGED << serde, call, typed, definition, draft, inv, store, laterVars >>

NextCounter ==
  \/ IncrementInvoked
  \/ IncrementRead
  \/ IncrementWrite
  \/ IncrementReturn

SpecCounter == InitCounter /\ [][NextCounter]_vars

Atoms ==
  { Num(n) : n \in DomainVals }
    \cup { Str("hello"), Bool(0), Bool(1), NullVal, Undefined, DateVal(1), BigIntVal(1) }

Arrays == { Arr(items) : items \in UNION { [1..n -> Atoms] : n \in 0..2 } }

Objects ==
  { Obj(<< >>, << >>) }
    \cup { Obj(<< "a" >>, << x >>) : x \in Atoms }
    \cup { Obj(<< "a", "b" >>, << x, y >>) : x \in Atoms, y \in Atoms }

Nested ==
  { Obj(<< "a" >>, << Obj(<< "b" >>, << x >>) >>) : x \in Atoms }
    \cup { Arr(<< Obj(<< "a" >>, << x >>) >>) : x \in Atoms }
    \cup { Obj(<< "a" >>, << Arr(<< x >>) >>) : x \in Atoms }

RepresentativeValues == Atoms \cup Arrays \cup Objects \cup Nested

InitSerde ==
  /\ serde \in Codecs
  /\ call = NoCall
  /\ typed = NoTyped
  /\ definition = NoDefinition
  /\ Idle

Serialize ==
  /\ trip.pc = "idle"
  /\ \E impl \in SerdeImpls, v \in RepresentativeValues :
       trip' = IF serialize(impl, v).t = "throw"
               THEN [pc |-> "done", impl |-> impl, value |-> v,
                     bytes |-> EmptyBytes, result |-> serialize(impl, v)]
               ELSE [pc |-> "serialized", impl |-> impl, value |-> v,
                     bytes |-> serialize(impl, v), result |-> Undefined]
  /\ UNCHANGED << coreVars, standalone, flights, keyed >>

Deserialize ==
  /\ trip.pc = "serialized"
  /\ trip' = [trip EXCEPT !.pc = "done", !.result = deserialize(trip.impl, trip.bytes)]
  /\ UNCHANGED << coreVars, standalone, flights, keyed >>

ForgetTrip ==
  /\ trip.pc = "done"
  /\ trip' = NoTrip
  /\ UNCHANGED << coreVars, standalone, flights, keyed >>

NextSerde == Serialize \/ Deserialize \/ ForgetTrip

SpecSerde == InitSerde /\ [][NextSerde]_vars

\* C12: for each codec shipped in the repository, deserialize(serialize(v))
\* equals v for every representative value v: primitives, nested objects,
\* arrays, a Date, an absent (undefined) value and a large integer (bigint).
C12_RoundTrip ==
  trip.pc = "done" => trip.result = trip.value

(***************************************************************************)
(* The process outside the runtime: configurations are created and         *)
(* standalone clients are built from the current one.                      *)
(***************************************************************************)
MaxClients == 2       \* standalone clients built in one process

InitStandalone ==
  /\ serde \in Codecs
  /\ call = NoCall
  /\ typed = NoTyped
  /\ definition = NoDefinition
  /\ draft = "src"
  /\ inv = NoInv
  /\ store = EmptyStore
  /\ counter = NoCounter
  /\ trip = NoTrip
  /\ flights = NoFlights
  /\ keyed = NoKeyed
  /\ \E d \in StandaloneDrafts, env \in EnvValues :
       standalone = [NoStandalone EXCEPT !.sdraft = d, !.env = env]

\* new RestateClient({ restateUrl }) / getRestate({ restateUrl }); the cached
\* draft has no URL argument and its URL is fixed when the module is loaded
Configure ==
  /\ Len(standalone.clients) < MaxClients
  /\ \E explicit \in IF standalone.sdraft = "perCall" THEN ExplicitValues ELSE {Undef} :
       standalone' = [standalone EXCEPT
                        !.configured = TRUE,
                        !.explicit = explicit,
                        !.url = resolveUrl(standalone.sdraft, explicit, standalone.env)]
  /\ UNCHANGED << coreVars, trip, flights, keyed >>

\* createServiceClient / ... / createWorkflowSendClient
CreateStandaloneClient ==
  /\ standalone.configured
  /\ Len(standalone.clients) < MaxClients
  /\ \E kind \in StandaloneKinds :
       LET conn == ingressFor(standalone.sdraft, standalone.ingress, standalone.url)
           opened == connectsOnUse(standalone.sdraft, standalone.ingress)
           connId == IF opened THEN standalone.connects + 1 ELSE standalone.ingressId
       IN standalone' = [standalone EXCEPT
            !.ingress = IF standalone.sdraft = "cached" THEN conn ELSE standalone.ingress,
            !.ingressId = IF standalone.sdraft = "cached" THEN connId
                          ELSE standalone.ingressId,
            !.connects = IF opened THEN standalone.connects + 1 ELSE standalone.connects,
            !.clients = Append(standalone.clients,
                               [kind |-> kind, wrap |-> standaloneWrap(kind),
                                codec |-> serde, builtFor |-> standalone.url,
                                connectedTo |-> conn, conn |-> connId])]
  /\ UNCHANGED << coreVars, trip, flights, keyed >>

\* getRestateClient() called directly: ingress ??= restate.connect({ url: restateUrl })
GetRestateClient ==
  /\ standalone.sdraft = "cached"
  /\ standalone.configured
  /\ Len(standalone.returned) < MaxClients
  /\ LET opened == connectsOnUse(standalone.sdraft, standalone.ingress)
         connId == IF opened THEN standalone.connects + 1 ELSE standalone.ingressId
     IN standalone' = [standalone EXCEPT
          !.ingress = ingressFor(standalone.sdraft, standalone.ingress, standalone.url),
          !.ingressId = connId,
          !.connects = IF opened THEN standalone.connects + 1 ELSE standalone.connects,
          !.returned = Append(standalone.returned, connId)]
  /\ UNCHANGED << coreVars, trip, flights, keyed >>

NextStandalone == Configure \/ CreateStandaloneClient \/ GetRestateClient

SpecStandalone == InitStandalone /\ [][NextStandalone]_vars

\* C13: every standalone client built for a base URL u sends its calls through
\* an ingress connection to u, for any sequence of client constructions in
\* one process, also when they are for different base URLs.
C13_ConnectedToOwnUrl ==
  \A i \in 1..Len(standalone.clients) :
    standalone.clients[i].connectedTo = standalone.clients[i].builtFor

C13_Witness ==
  /\ Len(standalone.clients) = 2
  /\ standalone.clients[1].builtFor = "http://restate-a:8080"
  /\ standalone.clients[1].connectedTo = "http://restate-a:8080"
  /\ standalone.clients[2].builtFor = "http://restate-b:8080"
  /\ standalone.clients[2].connectedTo = "http://restate-b:8080"

\* C14: the base URL of a configuration is the explicit restateUrl when one
\* is given, otherwise the value of RESTATE_URL when it is set, otherwise
\* "http://localhost:8080".
C14_BaseUrlResolution ==
  standalone.configured =>
    standalone.url = IF standalone.explicit # Undef THEN standalone.explicit
                     ELSE IF standalone.env # Undef THEN standalone.env
                     ELSE DefaultUrl

(***************************************************************************)
(* Invocations in flight together.  The runtime delivers each invocation   *)
(* to the wrapper with a raw context of its own; the wrapper builds the    *)
(* handler context as closures over that parameter, calls the declared     *)
(* handler and returns its promise.  Delegated calls (state access,        *)
(* durable steps, client construction, wrapped client methods) return the  *)
(* promise or raise the exception of the call they forward to.             *)
(***************************************************************************)
MaxDeliveries == 3    \* invocations delivered in one run

FlightKinds == {"service", "object", "event"}
FlightArgs == {<< 1 >>, << 1, 2 >>}
DelegateErrors == {"TerminalError"}
DelegateResults == {"ok"} \cup DelegateErrors

\* the delegated calls a handler context of each kind offers
DelegatedOps(kind) ==
  {"runStep", "clientConstruct", "clientMethod"}
    \cup (IF kind = "service" THEN {} ELSE {"getState", "setState", "clearState"})

\* the delegated calls made outside any handler
OutsideOps == {"standaloneConstruct", "clientMethod"}

\* payloads an invocation of each kind is delivered with; an event handler is
\* declared with one payload
DeliverableArgs(kind) ==
  IF kind = "event" THEN {a \in FlightArgs : Len(a) = 1} ELSE FlightArgs

\* a wrapper that builds its context once and keeps it for later invocations
bindContext_Cached(rawCtx, earlier) == IF earlier = 0 THEN rawCtx ELSE 1

\* the context literal closes over the wrapper's own ctx parameter
bindContext(rawCtx, earlier) == rawCtx

reverse(args) == [i \in 1..Len(args) |-> args[Len(args) + 1 - i]]

handlerArgs_Reversed(kind, args) == reverse(args)

\* handlerFn(context, ...args) | handler({ ...context, eventUuid, eventTimestamp }, data)
handlerArgs(kind, args) ==
  IF kind = "event" THEN << args[1] >> ELSE args

\* a delegation that catches the error and resolves with undefined
delegateOutcome_Swallowed(result) == "undefined"

\* ctx.get(...) / ctx.set(...) / ctx.run(...) / value.apply(...) returned as is
delegateOutcome(result) == result

InitFlights ==
  /\ serde \in Codecs
  /\ call = NoCall
  /\ typed = NoTyped
  /\ definition = NoDefinition
  /\ draft = "src"
  /\ inv = NoInv
  /\ store = EmptyStore
  /\ counter = NoCounter
  /\ trip = NoTrip
  /\ standalone = NoStandalone
  /\ flights = NoFlights
  /\ keyed = NoKeyed

\* the runtime delivers an invocation; the wrapper builds the context and
\* calls the declared handler
Deliver(s) ==
  /\ flights.slots[s].pc = "free"
  /\ flights.delivered < MaxDeliveries
  /\ \E kind \in FlightKinds :
       \E args \in DeliverableArgs(kind) :
         LET raw == flights.delivered + 1
         IN flights' = [flights EXCEPT
              !.delivered = raw,
              !.slots[s] = [NoFlight EXCEPT
                 !.pc = "running", !.kind = kind, !.rawCtx = raw,
                 !.boundCtx = bindContext(raw, flights.delivered),
                 !.args = args,
                 !.calls = << handlerArgs(kind, args) >>]]
  /\ UNCHANGED << coreVars, trip, standalone, keyed >>

\* the handler uses a member of its context
Delegate(s) ==
  /\ flights.slots[s].pc = "running"
  /\ flights.slots[s].op = "none"
  /\ \E op \in DelegatedOps(flights.slots[s].kind), result \in DelegateResults :
       flights' = [flights EXCEPT
         !.slots[s].op = op,
         !.slots[s].opTarget = flights.slots[s].boundCtx,
         !.slots[s].raised = result,
         !.slots[s].surfaced = delegateOutcome(result),
         !.slots[s].attempts = 1]
  /\ UNCHANGED << coreVars, trip, standalone, keyed >>

\* the handler has awaited the delegated call
DelegateSettles(s) ==
  /\ flights.slots[s].pc = "running"
  /\ flights.slots[s].op # "none"
  /\ flights' = [flights EXCEPT
         !.slots[s].op = "none",
         !.slots[s].opTarget = 0,
         !.slots[s].raised = "none",
         !.slots[s].surfaced = "none",
         !.slots[s].attempts = 0]
  /\ UNCHANGED << coreVars, trip, standalone, keyed >>

\* the handler's promise settles and the wrapper's promise with it
HandlerSettles(s) ==
  /\ flights.slots[s].pc = "running"
  /\ flights.slots[s].op = "none"
  /\ \E outcome \in {"returned", "rejected"} :
       flights' = [flights EXCEPT
         !.slots[s].pc = "done",
         !.slots[s].outcome = outcome]
  /\ UNCHANGED << coreVars, trip, standalone, keyed >>

\* the runtime is done with the invocation
Release(s) ==
  /\ flights.slots[s].pc = "done"
  /\ flights' = [flights EXCEPT !.slots[s] = NoFlight]
  /\ UNCHANGED << coreVars, trip, standalone, keyed >>

\* a standalone client is constructed, or a method of one is called
OutsideCall ==
  /\ flights.outside.op = "none"
  /\ \E op \in OutsideOps, result \in DelegateResults :
       flights' = [flights EXCEPT
         !.outside = [op |-> op, raised |-> result,
                      surfaced |-> delegateOutcome(result), attempts |-> 1]]
  /\ UNCHANGED << coreVars, trip, standalone, keyed >>

OutsideSettles ==
  /\ flights.outside.op # "none"
  /\ flights' = [flights EXCEPT !.outside = NoOutside]
  /\ UNCHANGED << coreVars, trip, standalone, keyed >>

NextFlights ==
  \/ \E s \in Slots : Deliver(s)
  \/ \E s \in Slots : Delegate(s)
  \/ \E s \in Slots : DelegateSettles(s)
  \/ \E s \in Slots : HandlerSettles(s)
  \/ \E s \in Slots : Release(s)
  \/ OutsideCall
  \/ OutsideSettles

SpecFlights == InitFlights /\ [][NextFlights]_vars

InFlight(s) == flights.slots[s].pc # "free"

\* C17: every invocation gets a context built for it and bound to its own raw
\* context; no context is shared by two invocations in flight, and every
\* operation made through a context goes to the raw context of its invocation.
C17_OwnContext ==
  /\ \A s \in Slots :
       InFlight(s) =>
         /\ flights.slots[s].boundCtx = flights.slots[s].rawCtx
         /\ flights.slots[s].op # "none" =>
              flights.slots[s].opTarget = flights.slots[s].rawCtx
  /\ \A s, t \in Slots :
       (s # t /\ InFlight(s) /\ InFlight(t)) =>
         flights.slots[s].boundCtx # flights.slots[t].boundCtx

C17_Witness ==
  /\ flights.slots["first"].pc = "running"
  /\ flights.slots["second"].pc = "running"
  /\ flights.slots["first"].op = "setState"
  /\ flights.slots["second"].op = "setState"
  /\ flights.slots["first"].opTarget = flights.slots["first"].rawCtx
  /\ flights.slots["second"].opTarget = flights.slots["second"].rawCtx
  /\ flights.slots["first"].rawCtx # flights.slots["second"].rawCtx

\* C18: for each delivered invocation the declared handler is called exactly
\* once, with the invocation's domain arguments in their original order, and
\* is not called again whether it succeeds or fails.
C18_CalledOnce ==
  \A s \in Slots :
    InFlight(s) =>
      /\ Len(flights.slots[s].calls) = 1
      /\ flights.slots[s].calls[1] = flights.slots[s].args

C18_Witness ==
  \E s \in Slots :
    /\ flights.slots[s].pc = "done"
    /\ flights.slots[s].outcome = "rejected"
    /\ flights.slots[s].args = << 1, 2 >>
    /\ flights.slots[s].calls = << << 1, 2 >> >>

\* C19: an error raised by a delegated call (state get, set or clear, durable
\* step, client construction inside or outside a handler, wrapped client
\* method) reaches the caller unchanged, and the call is made once.
C19_ErrorsPropagate ==
  /\ \A s \in Slots :
       flights.slots[s].op # "none" =>
         /\ flights.slots[s].surfaced = flights.slots[s].raised
         /\ flights.slots[s].attempts = 1
  /\ flights.outside.op # "none" =>
       /\ flights.outside.surfaced = flights.outside.raised
       /\ flights.outside.attempts = 1

C19_Witness ==
  /\ flights.outside.op = "standaloneConstruct"
  /\ flights.outside.surfaced = "TerminalError"
  /\ \E s \in Slots :
       /\ flights.slots[s].op = "runStep"
       /\ flights.slots[s].raised = "TerminalError"
       /\ flights.slots[s].surfaced = "TerminalError"

(***************************************************************************)
(* Further properties of codec injection (SpecClient).                     *)
(***************************************************************************)
\* the caller passed an options value the wrapped client recognises
SentHasOpts ==
  /\ Len(call.sent) > 0
  /\ Last(call.sent).cls = OptsClassOf(call.wrap)

\* the domain arguments of the caller's list and of the list the raw method gets
SentDomainArgs == IF SentHasOpts THEN SliceButLast(call.sent) ELSE call.sent
ReceivedDomainArgs == SliceButLast(call.received)

\* C21: a send client (in-handler or ingress) injects with the send-options
\* shape: a trailing send-options value keeps its input codec when set and gets
\* the configured codec otherwise, any other list gets a new send-options value
\* with the configured codec as input codec appended, and no output codec is
\* set on a send call.
C21_SendOptionsShape ==
  call.wrap \in SendWrapKinds =>
    /\ Last(call.received).cls = OptsClassOf(call.wrap)
    /\ Last(call.received).output = NoCodec
    /\ SentHasOpts =>
         /\ Len(call.received) = Len(call.sent)
         /\ Last(call.received).input =
              (IF Last(call.sent).input # NoCodec THEN Last(call.sent).input ELSE serde)
    /\ ~SentHasOpts =>
         /\ Last(call.received).input = serde
         /\ Len(call.sent) > 0 => call.received = Append(call.sent, Last(call.received))

C21_Witness ==
  /\ call.wrap = "wrapSendClient"
  /\ Len(call.sent) = 2
  /\ Last(call.sent).cls = "SendOpts"
  /\ Last(call.sent).input = NoCodec
  /\ Last(call.sent).delay = 1
  /\ Last(call.received).cls = "SendOpts"
  /\ Last(call.received).input = serde
  /\ Last(call.received).output = NoCodec

\* C23 as stated: injection changes nothing but the codec fields: the raw
\* method gets the caller's domain arguments (same values, count and order)
\* and, when the caller passed an options value, the same non-codec fields.
C23_OnlyCodecFieldsChange ==
  call.wrap # "none" =>
    /\ ReceivedDomainArgs = SentDomainArgs
    /\ SentHasOpts =>
         /\ Last(call.received).delay = Last(call.sent).delay
         /\ Last(call.received).idempotencyKey = Last(call.sent).idempotencyKey

\* C23 amended: for a call with at least one argument the raw method gets the
\* caller's domain arguments (same values, count and order) and, when the
\* caller passed an options value, the same non-codec fields; for a call with
\* no argument the raw method gets the empty object {} as its one domain
\* argument.
C23_OnlyCodecFieldsChangeUnlessEmpty ==
  call.wrap # "none" =>
    /\ Len(call.sent) > 0 => ReceivedDomainArgs = SentDomainArgs
    /\ Len(call.sent) = 0 => ReceivedDomainArgs = << EmptyObject >>
    /\ SentHasOpts =>
         /\ Last(call.received).delay = Last(call.sent).delay
         /\ Last(call.received).idempotencyKey = Last(call.sent).idempotencyKey

C23_Witness ==
  /\ call.wrap = "wrapIngressSendClient"
  /\ Len(call.sent) = 3
  /\ call.sent[1] # call.sent[2]
  /\ Last(call.sent).cls = "IngressSendOpts"
  /\ Last(call.sent).delay = 1
  /\ Last(call.sent).idempotencyKey = 1
  /\ Last(call.sent).input = NoCodec
  /\ Last(call.received).delay = 1
  /\ Last(call.received).idempotencyKey = 1
  /\ Last(call.received).input = serde

\* C28: injection is idempotent: the list produced by the injection step,
\* passed through the same step again, comes back with the same length, the
\* same domain arguments and the same input and output codecs.
C28_InjectionIdempotent ==
  call.wrap # "none" =>
    LET again == createClientWrapper(call.wrap, call.received, serde)
    IN /\ Len(again) = Len(call.received)
       /\ SliceButLast(again) = SliceButLast(call.received)
       /\ Last(again).input = Last(call.received).input
       /\ Last(again).output = Last(call.received).output

C28_Witness ==
  /\ call.wrap = "wrapClient"
  /\ Len(call.sent) = 1
  /\ Last(call.sent).cls = "value"
  /\ Len(call.received) = 2
  /\ createClientWrapper(call.wrap, call.received, serde) = call.received

(***************************************************************************)
(* Further properties of the invocation machine (Spec).                    *)
(***************************************************************************)
EventsNow == NullishOr(store, "events", getCodec(draft, serde, NoCodec), << >>)

EventSettled(type) ==
  /\ inv.pc = "settled"
  /\ definition.primitive = "event"
  /\ inv.declared.type = type

C24_WritesTouchNamedKeyOnly ==
  [][ (inv.pc = "running" /\ inv'.pc = "running") =>
        /\ \A k \in StoreKeys \ {inv'.last.key} : store'[k] = store[k]
        /\ inv'.last.op \in {"get", "run"} => store' = store
        /\ (inv'.last.op = "set" /\ inv' # inv) =>
             store'[inv'.last.key].value = inv'.last.value
        /\ (inv'.last.op = "clear" /\ inv' # inv) =>
             \A c \in MaybeCodec : ctxGet(store', inv'.last.key, c) = Null ]_vars

C24_Witness ==
  /\ inv.pc = "running"
  /\ inv.last.op = "clear"
  /\ inv.last.key = "count"
  /\ store["count"] = NoCell
  /\ store["name"].codec # "none"
  /\ store["name"].value = 2

\* C26: when the user's event handler rejects, the wrapper appends no event
\* record: `events` holds what it held when the handler stopped, and the
\* rejection reaches the runtime.
C26_NoRecordOnReject ==
  EventSettled("reject") =>
    /\ EventsNow = inv.eventsAtSettle
    /\ inv.observed = inv.declared

C26_Witness ==
  /\ EventSettled("reject")
  /\ Len(EventsNow) = 1
  /\ inv.eventsAtSettle = EventsNow
  /\ inv.observed.type = "reject"

\* C27: the stored event record carries the uuid and the timestamp that were
\* passed to the user's handler as eventUuid and eventTimestamp, and the
\* stored timestamp is a number and the stored uuid a string.
C27_RecordMatchesContext ==
  EventSettled("return") =>
    /\ Last(EventsNow).uuid = inv.eventUuid
    /\ Last(EventsNow).timestamp = inv.eventTimestamp
    /\ typeOf(Last(EventsNow).uuid) = "string"
    /\ typeOf(Last(EventsNow).timestamp) = "number"

\* C30: getState and setState of one built context pass the runtime the same
\* codec for the same call form (plain, or with the same opts), so that what
\* setState wrote is read back with the codec that wrote it.
C30_GetAndSetSameCodec ==
  inv.last.op \in {"get", "set"} =>
    /\ inv.last.codec = getCodec(draft, serde, inv.last.opts)
    /\ inv.last.codec = setCodec(draft, serde, inv.last.opts)

\* C29: the module-level standalone connection is created lazily and at most
\* once: after any sequence of getRestateClient calls and client
\* constructions connect has been called at most one time, and every call got
\* the same ingress object.
C29_ConnectsAtMostOnce ==
  standalone.sdraft = "cached" =>
    /\ standalone.connects <= 1
    /\ standalone.connects = 0 <=>
         (standalone.returned = << >> /\ standalone.clients = << >>)
    /\ \A i \in 1..Len(standalone.returned) : standalone.returned[i] = 1
    /\ \A i \in 1..Len(standalone.clients) : standalone.clients[i].conn = 1

C29_Witness ==
  /\ standalone.sdraft = "cached"
  /\ Len(standalone.clients) = 2
  /\ Len(standalone.returned) = 2
  /\ standalone.connects = 1
  /\ standalone.clients[2].conn = standalone.returned[1]

(***************************************************************************)
(* Invocations submitted together to one object key.  The runtime starts a *)
(* handler body from its queue; a key runs one exclusive body at a time.   *)
(* The body is a read-modify-write: the counter's increment, or the        *)
(* event-object wrapper's append.                                          *)
(***************************************************************************)
MaxSubmitted == 3     \* invocations submitted together to the key

KeyedHandlers == {"increment", "created"}
KeyedPrimitive(handler) == IF handler = "increment" THEN "object" ELSE "event"

\* the kind an adapter registered the one handler of the definition with
RegisteredKind(handlers) == (CHOOSE h \in handlers : TRUE).kind

Running == {s \in Slots : keyed.bodies[s].pc # "free"}

\* the runtime's queue for an object key: an exclusive handler waits until
\* no other body runs on the key
runtimeAdmits(kind, running) == kind = "exclusive" => running = {}

InitKeyed ==
  /\ serde \in Codecs
  /\ call = NoCall
  /\ typed = NoTyped
  /\ inv = NoInv
  /\ store = EmptyStore
  /\ counter = NoCounter
  /\ trip = NoTrip
  /\ standalone = NoStandalone
  /\ flights = NoFlights
  /\ \E h \in KeyedHandlers, n \in 1..MaxSubmitted :
       /\ draft \in {d \in Drafts : [draft |-> d, primitive |-> KeyedPrimitive(h)] \in Deployments}
       /\ definition = [primitive |-> KeyedPrimitive(h), form |-> "adapter",
                        declared |-> {h},
                        handlers |-> BuildDefinition(KeyedPrimitive(h), {h}, serde)]
       /\ keyed = [NoKeyed EXCEPT
                     !.handler = h,
                     !.kind = RegisteredKind(BuildDefinition(KeyedPrimitive(h), {h}, serde)),
                     !.submitted = n, !.pending = n]

\* the runtime takes an invocation from the key's queue and calls the wrapper
StartBody(s) ==
  /\ keyed.pending > 0
  /\ keyed.bodies[s].pc = "free"
  /\ runtimeAdmits(keyed.kind, Running)
  /\ keyed' = [keyed EXCEPT
       !.pending = keyed.pending - 1,
       !.started = keyed.started + 1,
       !.bodies[s] = [NoBody EXCEPT !.pc = "read", !.seq = keyed.started + 1]]
  /\ UNCHANGED << coreVars, trip, standalone, flights >>

\* (await getState("count")) ?? 0  |  (await context.getState("events")) ?? []
BodyReads(s) ==
  /\ keyed.bodies[s].pc = "read"
  /\ keyed' = [keyed EXCEPT
       !.bodies[s].pc = "write",
       !.bodies[s].currentCount =
          IF keyed.handler = "increment"
          THEN NullishOr(keyed.store, "count", getCodec(draft, serde, NoCodec), 0)
          ELSE Null,
       !.bodies[s].eventsList =
          IF keyed.handler = "increment" THEN << >>
          ELSE NullishOr(keyed.store, "events", getCodec(draft, serde, NoCodec), << >>)]
  /\ UNCHANGED << coreVars, trip, standalone, flights >>

\* await setState("count", currentCount + 1)
\* await setState("events", [...eventsList, event]); the body returns
BodyWrites(s) ==
  /\ keyed.bodies[s].pc = "write"
  /\ keyed' = [keyed EXCEPT
       !.completed = keyed.completed + 1,
       !.bodies[s] = NoBody,
       !.store =
          IF keyed.handler = "increment"
          THEN ctxSet(keyed.store, "count", keyed.bodies[s].currentCount + 1,
                      setCodec(draft, serde, NoCodec))
          ELSE ctxSet(keyed.store, "events",
                      Append(keyed.bodies[s].eventsList,
                             EventRecord(keyed.handler, keyed.bodies[s].seq, DateNow,
                                         Uuids[keyed.bodies[s].seq])),
                      setCodec(draft, serde, NoCodec))]
  /\ UNCHANGED << coreVars, trip, standalone, flights >>

NextKeyed ==
  \/ \E s \in Slots : StartBody(s)
  \/ \E s \in Slots : BodyReads(s)
  \/ \E s \in Slots : BodyWrites(s)

SpecKeyed == InitKeyed /\ [][NextKeyed]_vars

AllCompleted == keyed.submitted > 0 /\ keyed.completed = keyed.submitted

\* C25: object handlers are registered exclusive, so invocations on one key
\* never interleave their read-modify-write: when the n invocations submitted
\* together to a key have all completed, the state reflects all n updates
\* (count = n, n event records).
C25_NoLostUpdate ==
  /\ keyed.handler # "none" => keyed.kind = "exclusive"
  /\ Cardinality(Running) <= 1
  /\ AllCompleted =>
       /\ keyed.handler = "increment" =>
            ctxGet(keyed.store, "count", getCodec(draft, serde, NoCodec)) = keyed.submitted
       /\ keyed.handler = "created" =>
            Len(ctxGet(keyed.store, "events", getCodec(draft, serde, NoCodec)))
              = keyed.submitted

C25_Witness ==
  /\ AllCompleted
  /\ keyed.submitted = 3
  /\ keyed.handler = "created"
  /\ Len(keyed.store["events"].value) = 3

====
